---------------------------- MODULE Spec2Model ----------------------------
(***************************************************************************)
(* Shipment checklists (src/app.py): the ships / items / events tables,    *)
(* the Flask session of each browser, and the request handlers, each       *)
(* split at its database transactions (every DAO helper opens its own      *)
(* connection and commits), so that requests of different sessions         *)
(* interleave between two DAO calls.                                       *)
(*                                                                         *)
(* Columns no handler reads or writes after creation (title, number,       *)
(* status, sent_at, external_url, image_path, ip, user_agent) are left     *)
(* out of the rows.                                                        *)
(***************************************************************************)
EXTENDS Integers, Sequences, FiniteSets, TLC

\* ------------------------------------------------------------------ bounds
MaxRequests == 3    \* requests the server accepts in one run
MaxTime == 2        \* the clock now_iso() reads takes the values 1..MaxTime
MaxShips == 2       \* rows of ships
MaxItems == 3       \* rows of items
MaxNewLabels == 2   \* "items" fields of one /new form

\* ------------------------------------------------------------ value spaces
NULL == 0                   \* SQL NULL in a timestamp column
NoActor == <<>>             \* SQL NULL in confirmed_by / viewed_by
NoEmail == ""               \* None: no responsible_email, no viewer_email
NoShip == 0                 \* get_ship_by_token found no row

Sessions == {"s1", "s2"}
Times == 1..MaxTime

\* name and e-mail fields of a /login form, e-mail already stripped and lowered
LoginForms ==
    { [name |-> "", email |-> ""],
      [name |-> "Ann", email |-> "r@x.com"],
      [name |-> "", email |-> "o@x.com"] }

\* responsible_email field of a /new form after .strip().lower()
ResponsibleInputs == {"", "r@x.com"}

Range(s) == { s[i] : i \in DOMAIN s }

RECURSIVE SeqsUpTo(_, _)
SeqsUpTo(S, n) ==
    IF n = 0 THEN { <<>> }
    ELSE LET shorter == SeqsUpTo(S, n - 1)
         IN  shorter \cup { Append(s, x) : s \in { t \in shorter : Len(t) = n - 1 }, x \in S }

\* ------------------------------------------------------- labels and tokens
\* A label is the sequence of its characters.
Labels == { <<>>, <<" ">>, <<"A">>, <<" ", "A", " ">> }

RECURSIVE LStrip(_)
LStrip(s) == IF s # <<>> /\ Head(s) = " " THEN LStrip(Tail(s)) ELSE s

RECURSIVE RStrip(_)
RStrip(s) ==
    IF s # <<>> /\ s[Len(s)] = " " THEN RStrip(SubSeq(s, 1, Len(s) - 1)) ELSE s

Strip(s) == RStrip(LStrip(s))

LabelLists == SeqsUpTo(Labels, MaxNewLabels)

\* A token of the "items" form field is the sequence of its characters.
Digits == <<"0", "1", "2", "3", "4", "5", "6", "7", "8", "9">>
SuperDigits == {"sup2"}      \* U+00B2: str.isdigit() is True, int() raises

DigitVal(c) == (CHOOSE i \in DOMAIN Digits : Digits[i] = c) - 1

\* str.isdigit(): non-empty and every character is a digit character
IsDigit(tok) ==
    /\ tok # <<>>
    /\ \A i \in DOMAIN tok : tok[i] \in Range(Digits) \cup SuperDigits

\* whether int(tok) returns (it raises ValueError on U+00B2)
IntParses(tok) == \A i \in DOMAIN tok : tok[i] \in Range(Digits)

RECURSIVE ToInt(_)
ToInt(tok) ==
    IF tok = <<>> THEN 0
    ELSE 10 * ToInt(SubSeq(tok, 1, Len(tok) - 1)) + DigitVal(tok[Len(tok)])

Tok(n) == << Digits[n + 1] >>
Abc == <<"a", "b", "c">>

Tokens ==
    { Tok(n) : n \in 1..MaxItems } \cup { Abc, <<"0", "1">>, <<"sup2">>, <<>> }

\* the lists request.form.getlist("items") returns
ItemTokenLists ==
    { <<>> } \cup { <<t>> : t \in Tokens }
    \cup { <<Tok(i), Abc, Tok(j)>> : i, j \in 1..MaxItems }

\* the POST forms of /open/<token>
Forms ==
    { [confirm_all |-> "1", items |-> <<>>] }
    \cup { [confirm_all |-> "", items |-> l] : l \in ItemTokenLists }

\* uuid4().hex of the n-th shipment: an opaque value, distinct per shipment
TokenOf(n) == <<"tok", n>>
TokenInputs == { TokenOf(n) : n \in 1..MaxShips }

VARIABLES
    ships,      \* table ships, row i has id i
    items,      \* table items, row i has id i
    events,     \* table events, in insertion order
    session,    \* session[s]: the Flask session of browser s
    req,        \* req[s]: the request of browser s in flight, or its last response
    now,        \* the value now_iso() returns
    nreq        \* requests accepted so far

vars == <<ships, items, events, session, req, now, nreq>>

\* ------------------------------------------------------------------- rows
NewShipRow(id, responsible) ==
    [id |-> id, token |-> TokenOf(id), responsible_email |-> responsible,
     viewed_at |-> NULL, received_at |-> NULL]

NewItemRow(id, ship_id, label) ==
    [id |-> id, ship_id |-> ship_id, label |-> label,
     confirmed_at |-> NULL, confirmed_by |-> NoActor,
     viewed_at |-> NULL, viewed_by |-> NoActor]

NewSession == [viewer_name |-> "", viewer_email |-> NoEmail, flags |-> {}]

\* The session is a cookie signed with the fixed secret_key of line 11, so a
\* browser can arrive holding the identity an earlier login_post gave it:
\* browser s2 does, browser s1 arrives with no cookie.
ReturningSession == [viewer_name |-> "Ann", viewer_email |-> "r@x.com", flags |-> {}]

\* req[s] before browser s sent anything
IdleReq ==
    [op |-> "none", pc |-> "idle", ship |-> NoShip, actor |-> NoActor,
     form_items |-> <<>>, ids |-> <<>>, items |-> <<>>, result |-> "",
     logged |-> <<>>]

\* The response of a handler that returns (its locals are gone): the
\* operation asked for, the shipment it found, the outcome, the items the
\* page lists, and the types of the events the request appended.
Response(op, ship, result, logged, listed) ==
    [op |-> op, pc |-> "done", ship |-> ship, actor |-> NoActor,
     form_items |-> <<>>, ids |-> <<>>, items |-> listed, result |-> result,
     logged |-> logged]

\* -------------------------------------------------------------------- DAO
get_ship_by_token(shs, token) ==
    IF \E i \in DOMAIN shs : shs[i].token = token
    THEN (CHOOSE i \in DOMAIN shs : shs[i].token = token)
    ELSE NoShip

list_items_for_ship(its, ship_id) ==
    SelectSeq(its, LAMBDA it : it.ship_id = ship_id)

\* the update without "AND confirmed_at IS NULL"
confirm_all_items_overwriting(its, ship_id, who, t) ==
    [i \in DOMAIN its |->
        IF its[i].ship_id = ship_id
        THEN [its[i] EXCEPT !.confirmed_at = t, !.confirmed_by = who]
        ELSE its[i]]

confirm_all_items(its, ship_id, who, t) ==
    [i \in DOMAIN its |->
        IF its[i].ship_id = ship_id /\ its[i].confirmed_at = NULL
        THEN [its[i] EXCEPT !.confirmed_at = t, !.confirmed_by = who]
        ELSE its[i]]

\* the update without "ship_id=? AND"
confirm_selected_items_any_ship(its, ship_id, item_ids, who, t) ==
    IF item_ids = <<>> THEN its
    ELSE [i \in DOMAIN its |->
            IF its[i].id \in Range(item_ids) /\ its[i].confirmed_at = NULL
            THEN [its[i] EXCEPT !.confirmed_at = t, !.confirmed_by = who]
            ELSE its[i]]

\* the update without "AND confirmed_at IS NULL"
confirm_selected_items_overwriting(its, ship_id, item_ids, who, t) ==
    IF item_ids = <<>> THEN its
    ELSE [i \in DOMAIN its |->
            IF its[i].ship_id = ship_id /\ its[i].id \in Range(item_ids)
            THEN [its[i] EXCEPT !.confirmed_at = t, !.confirmed_by = who]
            ELSE its[i]]

confirm_selected_items(its, ship_id, item_ids, who, t) ==
    IF item_ids = <<>> THEN its
    ELSE [i \in DOMAIN its |->
            IF /\ its[i].ship_id = ship_id
               /\ its[i].id \in Range(item_ids)
               /\ its[i].confirmed_at = NULL
            THEN [its[i] EXCEPT !.confirmed_at = t, !.confirmed_by = who]
            ELSE its[i]]

\* an update that matches no row
mark_items_viewed_none(its, ship_id, item_ids, who, t) == its

mark_items_viewed(its, ship_id, item_ids, who, t) ==
    IF item_ids = <<>> THEN its
    ELSE [i \in DOMAIN its |->
            IF its[i].ship_id = ship_id /\ its[i].id \in Range(item_ids)
            THEN [its[i] EXCEPT !.viewed_at = t, !.viewed_by = who]
            ELSE its[i]]

\* COALESCE(old, t)
Coalesce(old, t) == IF old # NULL THEN old ELSE t

\* the update as "SET viewed_at = ?", without COALESCE
set_ship_viewed_overwriting(shs, ship_id, t) ==
    [i \in DOMAIN shs |->
        IF shs[i].id = ship_id THEN [shs[i] EXCEPT !.viewed_at = t] ELSE shs[i]]

set_ship_viewed_if_first_time(shs, ship_id, t) ==
    [i \in DOMAIN shs |->
        IF shs[i].id = ship_id
        THEN [shs[i] EXCEPT !.viewed_at = Coalesce(shs[i].viewed_at, t)]
        ELSE shs[i]]

\* SELECT COUNT(*) ... WHERE ship_id=? AND confirmed_at IS NULL
remaining(its, ship_id) ==
    Cardinality({ i \in DOMAIN its :
                    its[i].ship_id = ship_id /\ its[i].confirmed_at = NULL })

\* the update as "SET received_at = ?", without COALESCE
set_ship_received_overwriting(shs, ship_id, t) ==
    [i \in DOMAIN shs |->
        IF shs[i].id = ship_id THEN [shs[i] EXCEPT !.received_at = t] ELSE shs[i]]

\* UPDATE ships SET received_at = COALESCE(received_at, ?) WHERE id=?
set_ship_received(shs, ship_id, t) ==
    [i \in DOMAIN shs |->
        IF shs[i].id = ship_id
        THEN [shs[i] EXCEPT !.received_at = Coalesce(shs[i].received_at, t)]
        ELSE shs[i]]

\* the INSERT executed twice
add_event_twice(evs, ship_id, actor, etype, t) ==
    LET row == [ship_id |-> ship_id, ts |-> t, actor |-> actor, type |-> etype]
    IN  Append(Append(evs, row), row)

add_event(evs, ship_id, actor, etype, t) ==
    Append(evs, [ship_id |-> ship_id, ts |-> t, actor |-> actor, type |-> etype])

\* ---------------------------------------------------------- user context
current_user(sess) == sess.viewer_email

current_actor(sess) ==
    IF sess.viewer_email # NoEmail /\ sess.viewer_name # ""
    THEN <<sess.viewer_name, "<", sess.viewer_email, ">">>
    ELSE IF sess.viewer_email # NoEmail THEN <<sess.viewer_email>>
    ELSE <<"Convidado">>

\* can_edit that lets every identified viewer through
can_edit_anyone(responsible, sess) == TRUE

\* can_edit of open_public, line 170
can_edit(responsible, sess) ==
    responsible = NoEmail \/ current_user(sess) = responsible

\* [int(x) for x in tokens if x.isdigit()]
RECURSIVE ParseIds(_)
ParseIds(tokens) ==
    IF tokens = <<>> THEN <<>>
    ELSE IF IsDigit(Head(tokens))
         THEN <<ToInt(Head(tokens))>> \o ParseIds(Tail(tokens))
         ELSE ParseIds(Tail(tokens))

\* the comprehension raises ValueError when int() meets a digit it cannot read
ParseRaises(tokens) ==
    \E i \in DOMAIN tokens : IsDigit(tokens[i]) /\ ~IntParses(tokens[i])

\* the flag kept in memory shared by all sessions
SetFlag_shared(sessions, s, ship_id) ==
    [o \in DOMAIN sessions |-> [sessions[o] EXCEPT !.flags = @ \cup {ship_id}]]

\* session[f"viewed_flag_ship_{ship.id}"] = True
SetFlag(sessions, s, ship_id) ==
    [sessions EXCEPT ![s].flags = @ \cup {ship_id}]

\* ------------------------------------------------------------------ state
Init ==
    /\ ships = <<>>
    /\ items = <<>>
    /\ events = <<>>
    /\ session = [s \in Sessions |-> IF s = "s2" THEN ReturningSession ELSE NewSession]
    /\ req = [s \in Sessions |-> IdleReq]
    /\ now = 1
    /\ nreq = 0

\* browser s may send a request: its last one was answered
Accept(s) ==
    /\ req[s].pc \in {"idle", "done"}
    /\ nreq < MaxRequests
    /\ nreq' = nreq + 1

\* a step of the handler serving browser s, at label pc
At(s, pc) == req[s].pc = pc

Tick ==
    /\ now < MaxTime
    /\ now' = now + 1
    /\ UNCHANGED <<ships, items, events, session, req, nreq>>

\* --------------------------------------------------- /open/<token> (entry)
\* Lines 167-200: the shipment lookup, the access decision, and the choice of
\* branch. The request reads its session here; the branch's DAO calls follow
\* as separate steps.
OpenPublicStart(s, token, method, form) ==
    /\ Accept(s)
    /\ LET ship == get_ship_by_token(ships, token)
           sess == session[s]
           actor == current_actor(sess)
           op == IF method = "GET" THEN "view"
                 ELSE IF form.confirm_all = "1" THEN "confirm_all"
                 ELSE "confirm_selected"
           answer(result) == Response(op, ship, result, <<>>, <<>>)
           goto(pc, form_items) ==
               [op |-> op, pc |-> pc, ship |-> ship, actor |-> actor,
                form_items |-> form_items, ids |-> <<>>, items |-> <<>>,
                result |-> "", logged |-> <<>>]
       IN  req' = [req EXCEPT ![s] =
             IF ship = NoShip THEN answer("not_found")
             ELSE IF ships[ship].responsible_email # NoEmail /\ current_user(sess) = NoEmail
             THEN answer("login_redirect")
             ELSE IF method = "POST"
             THEN IF ~can_edit(ships[ship].responsible_email, sess)
                  THEN answer("forbidden")
                  ELSE IF form.confirm_all = "1"
                  THEN goto("confirm_all_items", <<>>)
                  ELSE IF ParseRaises(form.items)
                  THEN answer("server_error")
                  ELSE IF ParseIds(form.items) # <<>>
                  THEN goto("confirm_selected_items", form.items)
                  ELSE answer("none_selected")
             ELSE IF ship \notin sess.flags
                  THEN goto("list_items_once", <<>>)
                  ELSE goto("list_items", <<>>)]
    /\ UNCHANGED <<ships, items, events, session, now>>

OpenPublicGet(s) ==
    \E token \in TokenInputs :
        OpenPublicStart(s, token, "GET", [confirm_all |-> "", items |-> <<>>])

OpenPublicPost(s) ==
    \E token \in TokenInputs, form \in Forms :
        OpenPublicStart(s, token, "POST", form)

\* ------------------------------------------------ /open/<token> POST steps
\* line 181
ConfirmAllItems(s) ==
    /\ At(s, "confirm_all_items")
    /\ items' = confirm_all_items(items, req[s].ship, req[s].actor, now)
    /\ req' = [req EXCEPT ![s].pc = "add_event_confirm_all"]
    /\ UNCHANGED <<ships, events, session, now, nreq>>

\* line 182
AddEventConfirmAll(s) ==
    /\ At(s, "add_event_confirm_all")
    /\ events' = add_event(events, req[s].ship, req[s].actor, "CONFIRM_ALL", now)
    /\ req' = [req EXCEPT ![s].pc = "received_count",
                          ![s].logged = Append(@, "CONFIRM_ALL")]
    /\ UNCHANGED <<ships, items, session, now, nreq>>

\* lines 188-190; ids is the list parsed from the form's "items" fields
ConfirmSelectedItems(s) ==
    /\ At(s, "confirm_selected_items")
    /\ items' = confirm_selected_items(items, req[s].ship, ParseIds(req[s].form_items),
                                       req[s].actor, now)
    /\ req' = [req EXCEPT ![s].pc = "add_event_confirm_selected"]
    /\ UNCHANGED <<ships, events, session, now, nreq>>

\* line 191
AddEventConfirmSelected(s) ==
    /\ At(s, "add_event_confirm_selected")
    /\ events' = add_event(events, req[s].ship, req[s].actor, "CONFIRM_SELECTED", now)
    /\ req' = [req EXCEPT ![s].pc = "received_count",
                          ![s].logged = Append(@, "CONFIRM_SELECTED")]
    /\ UNCHANGED <<ships, items, session, now, nreq>>

\* set_ship_received_if_done, lines 369-372: the SELECT runs outside any
\* transaction (sqlite3 opens one only before INSERT/UPDATE/DELETE), so its
\* snapshot ends when the count is fetched.
ReceivedCount(s) ==
    /\ At(s, "received_count")
    /\ req' = [req EXCEPT ![s] =
                 IF remaining(items, req[s].ship) = 0
                 THEN [@ EXCEPT !.pc = "received_update"]
                 ELSE Response(@.op, @.ship, "ok", @.logged, <<>>)]
    /\ UNCHANGED <<ships, items, events, session, now, nreq>>

\* set_ship_received_if_done, lines 373-375
ReceivedUpdate(s) ==
    /\ At(s, "received_update")
    /\ ships' = set_ship_received(ships, req[s].ship, now)
    /\ req' = [req EXCEPT ![s] =
                 Response(@.op, @.ship, "ok", @.logged, <<>>)]
    /\ UNCHANGED <<items, events, session, now, nreq>>

\* ------------------------------------------------- /open/<token> GET steps
\* lines 201-203, and 207 when nothing is left to mark
ListItemsOnce(s) ==
    /\ At(s, "list_items_once")
    /\ LET items_once == list_items_for_ship(items, req[s].ship)
           unviewed == SelectSeq(items_once, LAMBDA it : it.viewed_at = NULL)
           not_viewed_ids == [i \in DOMAIN unviewed |-> unviewed[i].id]
       IN  IF not_viewed_ids # <<>>
           THEN /\ req' = [req EXCEPT ![s].pc = "mark_items_viewed",
                                      ![s].ids = not_viewed_ids]
                /\ UNCHANGED session
           ELSE /\ req' = [req EXCEPT ![s].pc = "list_items"]
                /\ session' = SetFlag(session, s, req[s].ship)
    /\ UNCHANGED <<ships, items, events, now, nreq>>

\* line 204
MarkItemsViewed(s) ==
    /\ At(s, "mark_items_viewed")
    /\ items' = mark_items_viewed(items, req[s].ship, req[s].ids, req[s].actor, now)
    /\ req' = [req EXCEPT ![s].pc = "add_event_auto_viewed"]
    /\ UNCHANGED <<ships, events, session, now, nreq>>

\* line 205
AddEventAutoViewed(s) ==
    /\ At(s, "add_event_auto_viewed")
    /\ events' = add_event(events, req[s].ship, req[s].actor, "AUTO_VIEWED_ITEMS", now)
    /\ req' = [req EXCEPT ![s].pc = "set_ship_viewed",
                          ![s].logged = Append(@, "AUTO_VIEWED_ITEMS")]
    /\ UNCHANGED <<ships, items, session, now, nreq>>

\* line 207 without line 206
SetShipViewed_flag_only(s) ==
    /\ At(s, "set_ship_viewed")
    /\ session' = SetFlag(session, s, req[s].ship)
    /\ req' = [req EXCEPT ![s].pc = "list_items", ![s].ids = <<>>]
    /\ UNCHANGED <<ships, items, events, now, nreq>>

\* lines 206-207
SetShipViewed(s) ==
    /\ At(s, "set_ship_viewed")
    /\ ships' = set_ship_viewed_if_first_time(ships, req[s].ship, now)
    /\ session' = SetFlag(session, s, req[s].ship)
    /\ req' = [req EXCEPT ![s].pc = "list_items", ![s].ids = <<>>]
    /\ UNCHANGED <<items, events, now, nreq>>

\* line 209
ListItems(s) ==
    /\ At(s, "list_items")
    /\ req' = [req EXCEPT ![s].pc = "add_event_view_open",
                          ![s].items = list_items_for_ship(items, req[s].ship)]
    /\ UNCHANGED <<ships, items, events, session, now, nreq>>

\* a page rendered without the VIEW_OPEN event
AddEventViewOpen_silent(s) ==
    /\ At(s, "add_event_view_open")
    /\ req' = [req EXCEPT ![s] = Response(@.op, @.ship, "ok", @.logged, @.items)]
    /\ UNCHANGED <<ships, items, events, session, now, nreq>>

\* lines 210-211
AddEventViewOpen(s) ==
    /\ At(s, "add_event_view_open")
    /\ events' = add_event(events, req[s].ship, req[s].actor, "VIEW_OPEN", now)
    /\ req' = [req EXCEPT ![s] =
                 Response(@.op, @.ship, "ok", Append(@.logged, "VIEW_OPEN"), @.items)]
    /\ UNCHANGED <<ships, items, session, now, nreq>>

\* ------------------------------------------------------ the other handlers
\* an unconfirm that does clear the item's confirmation
unconfirm_item_route_clearing(s, token, item_id) ==
    /\ Accept(s)
    /\ LET ship == get_ship_by_token(ships, token)
       IN  /\ ship # NoShip
           /\ req' = [req EXCEPT ![s] = Response("unconfirm", ship, "not_allowed", <<>>, <<>>)]
           /\ session' = SetFlag(session, s, ship)
           /\ items' = [i \in DOMAIN items |->
                          IF items[i].id = item_id /\ items[i].ship_id = ship
                          THEN [items[i] EXCEPT !.confirmed_at = NULL,
                                                !.confirmed_by = NoActor]
                          ELSE items[i]]
    /\ UNCHANGED <<ships, events, now>>

\* POST /open/<token>/unconfirm/<item_id>, lines 214-220
unconfirm_item_route(s, token, item_id) ==
    /\ Accept(s)
    /\ LET ship == get_ship_by_token(ships, token)
       IN  IF ship = NoShip
           THEN /\ req' = [req EXCEPT ![s] =
                    Response("unconfirm", NoShip, "not_found", <<>>, <<>>)]
                /\ UNCHANGED session
           ELSE /\ req' = [req EXCEPT ![s] =
                    Response("unconfirm", ship, "not_allowed", <<>>, <<>>)]
                /\ session' = SetFlag(session, s, ship)
    /\ UNCHANGED <<ships, items, events, now>>

UnconfirmItem(s) ==
    \E token \in TokenInputs, item_id \in 1..MaxItems :
        unconfirm_item_route(s, token, item_id)

\* POST /ship/<ship_id>/add_item, lines 258-269
add_item(s, ship_id, raw_label) ==
    /\ Accept(s)
    /\ LET label == Strip(raw_label)
       IN  IF label = <<>>
           THEN /\ req' = [req EXCEPT ![s] =
                    Response("add_item", ship_id, "empty_label", <<>>, <<>>)]
                /\ UNCHANGED items
           ELSE /\ Len(items) < MaxItems
                /\ items' = Append(items, NewItemRow(Len(items) + 1, ship_id, label))
                /\ req' = [req EXCEPT ![s] =
                    Response("add_item", ship_id, "ok", <<>>, <<>>)]
    /\ UNCHANGED <<ships, events, session, now>>

AddItem(s) ==
    \E ship_id \in 1..MaxShips, raw_label \in Labels : add_item(s, ship_id, raw_label)

\* the rows new_shipment inserts for its labels, lines 242-245
RECURSIVE InsertLabels(_, _, _)
InsertLabels(its, ship_id, labels) ==
    IF labels = <<>> THEN its
    ELSE IF Strip(Head(labels)) # <<>>
         THEN InsertLabels(Append(its, NewItemRow(Len(its) + 1, ship_id, Strip(Head(labels)))),
                           ship_id, Tail(labels))
         ELSE InsertLabels(its, ship_id, Tail(labels))

\* POST /new, lines 232-248: one transaction
new_shipment(s, responsible, labels) ==
    /\ Accept(s)
    /\ Len(ships) < MaxShips
    /\ LET ship_id == Len(ships) + 1
           grown == InsertLabels(items, ship_id, labels)
       IN  /\ Len(grown) <= MaxItems
           /\ ships' = Append(ships, NewShipRow(ship_id, responsible))
           /\ items' = grown
           /\ req' = [req EXCEPT ![s] =
                Response("new_shipment", ship_id, "ok", <<>>, <<>>)]
    /\ UNCHANGED <<events, session, now>>

NewShipment(s) ==
    \E responsible \in ResponsibleInputs, labels \in LabelLists :
        new_shipment(s, responsible, labels)

\* POST /login, lines 144-155
login_post(s, form) ==
    /\ Accept(s)
    /\ IF form.email = ""
       THEN /\ req' = [req EXCEPT ![s] =
                Response("login", NoShip, "no_email", <<>>, <<>>)]
            /\ UNCHANGED session
       ELSE /\ session' = [session EXCEPT ![s].viewer_name = form.name,
                                          ![s].viewer_email = form.email]
            /\ req' = [req EXCEPT ![s] =
                Response("login", NoShip, "ok", <<>>, <<>>)]
    /\ UNCHANGED <<ships, items, events, now>>

LoginPost(s) == \E form \in LoginForms : login_post(s, form)

\* GET /logout, lines 157-162
logout(s) ==
    /\ Accept(s)
    /\ session' = [session EXCEPT ![s].viewer_name = "", ![s].viewer_email = NoEmail]
    /\ req' = [req EXCEPT ![s] = Response("logout", NoShip, "ok", <<>>, <<>>)]
    /\ UNCHANGED <<ships, items, events, now>>

\* Lines 181-183 run with no other request in between: the tables after a
\* confirm-all of shipment ship_id by who at time t (the events table aside).
ConfirmAllEffect(db, ship_id, who, t) ==
    LET its == confirm_all_items(db.items, ship_id, who, t)
    IN  [items |-> its,
         ships |-> IF remaining(its, ship_id) = 0
                   THEN set_ship_received(db.ships, ship_id, t)
                   ELSE db.ships]

\* ---------------------------------------------------------- specification
Next ==
    \/ Tick
    \/ \E s \in Sessions : OpenPublicGet(s)
    \/ \E s \in Sessions : OpenPublicPost(s)
    \/ \E s \in Sessions : ConfirmAllItems(s)
    \/ \E s \in Sessions : AddEventConfirmAll(s)
    \/ \E s \in Sessions : ConfirmSelectedItems(s)
    \/ \E s \in Sessions : AddEventConfirmSelected(s)
    \/ \E s \in Sessions : ReceivedCount(s)
    \/ \E s \in Sessions : ReceivedUpdate(s)
    \/ \E s \in Sessions : ListItemsOnce(s)
    \/ \E s \in Sessions : MarkItemsViewed(s)
    \/ \E s \in Sessions : AddEventAutoViewed(s)
    \/ \E s \in Sessions : SetShipViewed(s)
    \/ \E s \in Sessions : ListItems(s)
    \/ \E s \in Sessions : AddEventViewOpen(s)
    \/ \E s \in Sessions : UnconfirmItem(s)
    \/ \E s \in Sessions : AddItem(s)
    \/ \E s \in Sessions : NewShipment(s)
    \/ \E s \in Sessions : LoginPost(s)
    \/ \E s \in Sessions : logout(s)

Spec == Init /\ [][Next]_vars

\* ------------------------------------------------------------- properties
ItemsOf(its, ship_id) == { i \in DOMAIN its : its[i].ship_id = ship_id }

ConfirmTypes == {"CONFIRM_ALL", "CONFIRM_SELECTED"}

\* no request is between two of its steps
Quiet == \A s \in Sessions : req[s].pc \in {"idle", "done"}

C2_ReceivedOnlyWhenAllConfirmed ==
    [][\A i \in DOMAIN ships :
          (ships[i].received_at = NULL /\ ships'[i].received_at # NULL)
              => remaining(items', i) = 0]_vars

\* C3: confirmed_at and confirmed_by of an item are null together, and once
\* set no step clears or rewrites them.
C3_ConfirmedTogether ==
    \A i \in DOMAIN items :
        (items[i].confirmed_at = NULL) <=> (items[i].confirmed_by = NoActor)

C3_ConfirmationIsFinal ==
    /\ []C3_ConfirmedTogether
    /\ [][\A i \in DOMAIN items :
             items[i].confirmed_at # NULL
                 => /\ items'[i].confirmed_at = items[i].confirmed_at
                    /\ items'[i].confirmed_by = items[i].confirmed_by]_vars

\* An item is confirmed by one actor, and a confirmation of its shipment by
\* another actor was logged after the first actor's.
C3_Witness ==
    \E i \in DOMAIN items, e1, e2 \in DOMAIN events :
        /\ items[i].confirmed_at # NULL
        /\ e1 < e2
        /\ events[e1].ship_id = items[i].ship_id
        /\ events[e2].ship_id = items[i].ship_id
        /\ events[e1].type \in ConfirmTypes
        /\ events[e2].type \in ConfirmTypes
        /\ events[e1].actor = items[i].confirmed_by
        /\ events[e2].actor # items[i].confirmed_by
        /\ events[e1].ts = items[i].confirmed_at
        /\ Quiet

\* C4: viewed_at and viewed_by of an item are written at most once.
C4_ViewedIsFinal ==
    [][\A i \in DOMAIN items :
          items[i].viewed_at # NULL
              => /\ items'[i].viewed_at = items[i].viewed_at
                 /\ items'[i].viewed_by = items[i].viewed_by]_vars

\* browser s takes a step of a request for operation op (its first included)
StepOf(s, op) == req'[s] # req[s] /\ req'[s].op = op

\* browser s sends a request for one of ops, and the handler's entry runs
Arrives(s, ops) ==
    /\ req[s].pc \in {"idle", "done"}
    /\ req'[s] # req[s]
    /\ req'[s].op \in ops

Refusals == {"login_redirect", "forbidden"}

\* C5: a confirmation of a shipment that has a responsible_email, sent by a
\* viewer without that e-mail, is refused and changes no table; sent by the
\* responsible viewer, or for a shipment without responsible_email, it is
\* not refused and goes on to its update.
C5_ConfirmNeedsResponsible ==
    [][\A s \in Sessions :
          (Arrives(s, {"confirm_all", "confirm_selected"}) /\ req'[s].ship # NoShip)
          => LET responsible == ships[req'[s].ship].responsible_email
                 email == session[s].viewer_email
             IN  IF responsible # NoEmail /\ email # responsible
                 THEN /\ req'[s].pc = "done"
                      /\ req'[s].result \in Refusals
                      /\ items' = items /\ ships' = ships /\ events' = events
                 ELSE /\ req'[s].result \notin Refusals
                      /\ req'[s].op = "confirm_all" => req'[s].pc = "confirm_all_items"
                      /\ req'[s].op = "confirm_selected" =>
                            \/ req'[s].pc = "confirm_selected_items"
                            \/ req'[s].result \in {"none_selected", "server_error"}]_vars

\* On one shipment with a responsible_email, an anonymous viewer's
\* confirmation was refused and the responsible viewer's went through.
C5_Witness ==
    \E s1, s2 \in Sessions :
        /\ req[s1].pc = "done" /\ req[s2].pc = "done"
        /\ req[s1].op = "confirm_all" /\ req[s2].op = "confirm_all"
        /\ req[s1].ship = req[s2].ship
        /\ req[s1].ship \in DOMAIN ships
        /\ ships[req[s1].ship].responsible_email # NoEmail
        /\ req[s1].result \in Refusals
        /\ req[s2].result = "ok"
        /\ \E i \in ItemsOf(items, req[s2].ship) : items[i].confirmed_at # NULL

\* the event type named after an operation
EventTypeOf(op) ==
    CASE op = "confirm_all" -> "CONFIRM_ALL"
      [] op = "confirm_selected" -> "CONFIRM_SELECTED"
      [] op = "add_item" -> "ADD_ITEM"
      [] OTHER -> "NONE"

Rejections ==
    {"login_redirect", "forbidden", "none_selected", "empty_label", "not_allowed"}

C6_Responses ==
    \A s \in Sessions :
        req[s].pc = "done"
        => /\ (req[s].result = "ok" /\ req[s].op \in {"confirm_all", "confirm_selected"})
                => req[s].logged = <<EventTypeOf(req[s].op)>>
           /\ req[s].op \in {"add_item", "new_shipment"} => req[s].logged = <<>>
           /\ req[s].result \in Rejections => req[s].logged = <<>>

\* what a request has logged is what it appended to the events table
C6_LoggedIsAppended ==
    IF events' = events
    THEN \A s \in Sessions :
            req[s].pc \notin {"idle", "done"} => req'[s].logged = req[s].logged
    ELSE /\ Len(events') = Len(events) + 1
         /\ SubSeq(events', 1, Len(events)) = events
         /\ \E s \in Sessions :
               /\ req[s].pc \notin {"idle", "done"}
               /\ events'[Len(events')].ship_id = req[s].ship
               /\ req'[s].logged = Append(req[s].logged, events'[Len(events')].type)
               /\ \A o \in Sessions \ {s} : req'[o] = req[o]

Names(tok, i) == IsDigit(tok) /\ IntParses(tok) /\ ToInt(tok) = i

\* C7: a confirm-selected on shipment S confirms the unconfirmed items of S
\* that a submitted token names, and changes no other row of items: not an
\* item of another shipment a token names, not an already confirmed one.
C7_ConfirmSelectedFrame ==
    [][\A s \in Sessions :
          StepOf(s, "confirm_selected")
          => IF req[s].pc = "confirm_selected_items"
             THEN \A i \in DOMAIN items :
                     IF /\ items[i].ship_id = req[s].ship
                        /\ items[i].confirmed_at = NULL
                        /\ \E k \in DOMAIN req[s].form_items : Names(req[s].form_items[k], i)
                     THEN items'[i] = [items[i] EXCEPT !.confirmed_at = now,
                                                       !.confirmed_by = req[s].actor]
                     ELSE items'[i] = items[i]
             ELSE items' = items]_vars

\* A confirm-selected with the tokens "1", "abc", "2" has run its update on a
\* shipment that owns item 1 while item 2 belongs to another shipment: item 1
\* is confirmed, item 2 is not.
C7_Witness ==
    \E s \in Sessions :
        /\ req[s].op = "confirm_selected"
        /\ req[s].pc = "add_event_confirm_selected"
        /\ req[s].form_items = <<Tok(1), Abc, Tok(2)>>
        /\ Len(items) >= 2
        /\ items[1].ship_id = req[s].ship
        /\ items[1].confirmed_by = req[s].actor
        /\ items[2].ship_id # req[s].ship
        /\ items[2].ship_id \in DOMAIN ships
        /\ items[2].confirmed_at = NULL

\* the strings current_actor can return
Actors == { current_actor([viewer_name |-> f.name, viewer_email |-> f.email, flags |-> {}]) :
              f \in LoginForms }

\* C8: a confirm-all followed at once by a second confirm-all, by any actor
\* at the same or a later time, leaves every row of items and ships as the
\* first one left it.
C8_ConfirmAllIdempotent ==
    \A ship_id \in DOMAIN ships, a1, a2 \in Actors, t1, t2 \in Times :
        (now <= t1 /\ t1 <= t2)
        => LET once == ConfirmAllEffect([items |-> items, ships |-> ships], ship_id, a1, t1)
               twice == ConfirmAllEffect(once, ship_id, a2, t2)
           IN  twice = once

\* Two confirm-all requests of one shipment by different actors ran one after
\* the other, the second in a later second: the items carry the first one's
\* name and time, and received_at the first one's time.
C8_Witness ==
    \E e \in DOMAIN events :
        /\ e + 1 \in DOMAIN events
        /\ events[e].type = "CONFIRM_ALL" /\ events[e + 1].type = "CONFIRM_ALL"
        /\ events[e].ship_id = events[e + 1].ship_id
        /\ events[e].actor # events[e + 1].actor
        /\ events[e].ts < events[e + 1].ts
        /\ Quiet
        /\ ItemsOf(items, events[e].ship_id) # {}
        /\ \A i \in ItemsOf(items, events[e].ship_id) :
              items[i].confirmed_by = events[e].actor /\ items[i].confirmed_at = events[e].ts
        /\ events[e].ship_id \in DOMAIN ships
        /\ ships[events[e].ship_id].received_at = events[e].ts

\* the step that ends a confirmation request of browser s
Completes(s) ==
    /\ req[s].pc \in {"received_count", "received_update"}
    /\ req'[s].pc = "done"

C9_AfterEachConfirmation ==
    \A s \in Sessions :
        Completes(s)
        => LET ship == req[s].ship
           IN  /\ (req[s].op = "confirm_selected" /\ remaining(items', ship) > 0
                      /\ ships[ship].received_at = NULL)
                  => ships'[ship].received_at = NULL
               /\ remaining(items', ship) = 0 => ships'[ship].received_at # NULL

C9_AfterAllConfirmations ==
    \A ship \in DOMAIN ships :
        (/\ \A s \in Sessions : req[s].ship = ship => req[s].pc \in {"idle", "done"}
         /\ \E e \in DOMAIN events : events[e].ship_id = ship /\ events[e].type \in ConfirmTypes
         /\ remaining(items, ship) = 0)
        => ships[ship].received_at # NULL

\* C9: when a confirm-selected ends with an item of the shipment unconfirmed,
\* received_at is still null; when a confirmation ends with no item
\* unconfirmed, received_at is set; and once all confirmations of a shipment
\* have ended with every item confirmed, received_at is set.
C9_CompletenessRechecked ==
    /\ []C9_AfterAllConfirmations
    /\ [][C9_AfterEachConfirmation]_vars

\* C10: an unconfirm request changes no row of items, ships or events and no
\* identity; it only adds the shipment to the calling session's viewed flags.
C10_UnconfirmChangesNothing ==
    [][\A s \in Sessions :
          Arrives(s, {"unconfirm"})
          => /\ items' = items /\ ships' = ships /\ events' = events
             /\ session' =
                  IF req'[s].ship = NoShip THEN session
                  ELSE [session EXCEPT ![s].flags = @ \cup {req'[s].ship}]]_vars

\* An unconfirm was answered for a shipment with a confirmed item by a
\* session that had not opened it: the item is still confirmed and the
\* session's flag for the shipment is set.
C10_Witness ==
    \E s \in Sessions :
        /\ req[s].pc = "done" /\ req[s].op = "unconfirm" /\ req[s].result = "not_allowed"
        /\ req[s].ship \in session[s].flags
        /\ \E i \in ItemsOf(items, req[s].ship) :
              items[i].confirmed_at # NULL /\ items[i].viewed_at = NULL

\* the derived state of a shipment row: 1 CREATED, 2 VIEWED, 3 COMPLETE
Stage(ship) ==
    IF ship.received_at # NULL THEN 3
    ELSE IF ship.viewed_at # NULL THEN 2
    ELSE 1

C11_CompleteImpliesViewed ==
    \A i \in DOMAIN ships : ships[i].received_at # NULL => ships[i].viewed_at # NULL

C11_NoStepBackNoSkip ==
    \A i \in DOMAIN ships :
        /\ Stage(ships'[i]) >= Stage(ships[i])
        /\ (Stage(ships'[i]) = 3 /\ Stage(ships[i]) # 3) => Stage(ships[i]) = 2

\* C11: the derived state of a shipment moves only forward along
\* CREATED -> VIEWED -> COMPLETE: no step takes a shipment back, a shipment
\* becomes COMPLETE only from VIEWED, and received_at is never non-null
\* while viewed_at is null.
C11_StateMovesForward ==
    /\ []C11_CompleteImpliesViewed
    /\ [][C11_NoStepBackNoSkip]_vars

\* ------------------------------------------------------- storage failures
\* The DAO call browser s's request is about to make raises (sqlite3
\* cannot open or write the file, or finds it locked past the timeout of
\* connect): no handler catches the exception, so the request ends there
\* with a 500 and what its earlier DAO calls committed stays.
Fail(s) ==
    /\ req[s].pc \notin {"idle", "done"}
    /\ req' = [req EXCEPT ![s] =
                 Response(@.op, @.ship, "storage_error", @.logged, <<>>)]
    /\ UNCHANGED <<ships, items, events, session, now, nreq>>

NextF ==
    \/ Next
    \/ \E s \in Sessions : Fail(s)

\* the program on a store whose calls may fail
SpecF == Init /\ [][NextF]_vars

\* the request of browser s ends on a failed DAO call
Fails(s) ==
    /\ req[s].pc \notin {"idle", "done"}
    /\ req'[s].pc = "done"
    /\ req'[s].result = "storage_error"

\* C12: when a confirmation request ends on a failed DAO call, either none
\* of its three effects happened (it failed at its item update), or all of
\* them did: its event is appended and received_at is set if no item of the
\* shipment is left unconfirmed.
C12_AllOrNothing ==
    [][\A s \in Sessions :
          (Fails(s) /\ req[s].op \in {"confirm_all", "confirm_selected"})
          => \/ req[s].pc \in {"confirm_all_items", "confirm_selected_items"}
             \/ /\ req[s].logged # <<>>
                /\ remaining(items, req[s].ship) = 0
                      => ships[req[s].ship].received_at # NULL]_vars

\* item i is in the set the confirmation request of browser s asks for
Targeted(s, i) ==
    /\ items[i].ship_id = req[s].ship
    /\ \/ req[s].op = "confirm_all"
       \/ \E k \in DOMAIN req[s].form_items : Names(req[s].form_items[k], i)

\* browser s's confirmation request has run its update and is not answered
PastUpdate(s) ==
    req[s].pc \in {"add_event_confirm_all", "add_event_confirm_selected",
                   "received_count", "received_update"}

\* C13: whatever other confirmation requests are in flight, the update of a
\* confirmation request leaves every item it asks for confirmed: an item an
\* earlier update reached keeps that update's confirmed_at and confirmed_by,
\* an item none reached gets this request's.
C13_ConfirmationsConverge ==
    [][\A s \in Sessions :
          (/\ req[s].pc \in {"confirm_all_items", "confirm_selected_items"}
           /\ req'[s].pc # req[s].pc)
          => \A i \in DOMAIN items :
                Targeted(s, i)
                => IF items[i].confirmed_at # NULL
                   THEN items'[i] = items[i]
                   ELSE /\ items'[i].confirmed_at = now
                        /\ items'[i].confirmed_by = req[s].actor]_vars

\* Two confirmation requests of different actors are in flight on one
\* shipment, both past their update: an item both ask for carries the name
\* and the earlier time of the one, an item only later reached the name and
\* time of the other.
C13_Witness ==
    \E s1, s2 \in Sessions, i, j \in DOMAIN items :
        /\ s1 # s2
        /\ PastUpdate(s1) /\ PastUpdate(s2)
        /\ req[s1].ship = req[s2].ship
        /\ req[s1].actor # req[s2].actor
        /\ Targeted(s1, i) /\ Targeted(s2, i) /\ Targeted(s2, j)
        /\ items[i].confirmed_by = req[s1].actor
        /\ items[j].confirmed_by = req[s2].actor
        /\ items[i].confirmed_at < items[j].confirmed_at

\* C14: once a shipment's viewed_at is non-null no step changes it, and
\* set_ship_viewed_if_first_time applied again, at any later time, returns
\* the table its first application returned.
C14_ViewedAtSetOnce ==
    /\ [](\A i \in DOMAIN ships, t1, t2 \in Times :
             LET once == set_ship_viewed_if_first_time(ships, i, t1)
             IN  /\ set_ship_viewed_if_first_time(once, i, t2) = once
                 /\ ships[i].viewed_at # NULL => once = ships)
    /\ [][\A i \in DOMAIN ships :
             ships[i].viewed_at # NULL => ships'[i].viewed_at = ships[i].viewed_at]_vars

\* Two sessions opened one shipment for the first time concurrently and both
\* ran set_ship_viewed_if_first_time, the second after logging its
\* AUTO_VIEWED_ITEMS event in a later second: viewed_at is the time of the
\* earlier call.
C14_Witness ==
    \E i \in DOMAIN ships, e1, e2 \in DOMAIN events :
        /\ e1 < e2
        /\ events[e1].type = "AUTO_VIEWED_ITEMS" /\ events[e2].type = "AUTO_VIEWED_ITEMS"
        /\ events[e1].ship_id = i /\ events[e2].ship_id = i
        /\ \A s \in Sessions : i \in session[s].flags /\ req[s].op = "view" /\ req[s].ship = i
        /\ ships[i].viewed_at # NULL
        /\ ships[i].viewed_at < events[e2].ts

C15_ServedViews ==
    \A s \in Sessions :
        (req[s].pc = "done" /\ req[s].op = "view")
        => IF req[s].result = "ok"
           THEN req[s].logged \in { <<"VIEW_OPEN">>, <<"AUTO_VIEWED_ITEMS", "VIEW_OPEN">> }
           ELSE req[s].logged = <<>> /\ req[s].result \in {"not_found", "login_redirect"}

\* the step that appends AUTO_VIEWED_ITEMS comes after the items were marked
\* and before the request's VIEW_OPEN
C15_AutoViewedInOrder ==
    \A s \in Sessions :
        (req[s].op = "view" /\ Len(req'[s].logged) > Len(req[s].logged)
            /\ req'[s].logged[Len(req'[s].logged)] = "AUTO_VIEWED_ITEMS")
        => /\ req[s].logged = <<>>
           /\ req[s].ids # <<>>
           /\ \A k \in DOMAIN req[s].ids : items[req[s].ids[k]].viewed_at # NULL

\* C15: every served GET of a shipment's page has appended exactly one
\* VIEW_OPEN event, as its last event, whether the visit is the session's
\* first or a repeat; a GET answered with a redirect or "not found" has
\* appended none; and AUTO_VIEWED_ITEMS is appended after the items were
\* marked viewed and before VIEW_OPEN.
C15_ViewOpenEveryVisit ==
    /\ []C15_ServedViews
    /\ [][C6_LoggedIsAppended /\ C15_AutoViewedInOrder]_vars

\* A session's first visit logged AUTO_VIEWED_ITEMS then VIEW_OPEN, and its
\* repeat visit of the same shipment logged one more VIEW_OPEN.
C15_Witness ==
    \E s \in Sessions, e \in DOMAIN events :
        /\ e + 2 \in DOMAIN events
        /\ events[e].type = "AUTO_VIEWED_ITEMS"
        /\ events[e + 1].type = "VIEW_OPEN"
        /\ events[e + 2].type = "VIEW_OPEN"
        /\ \A k \in {e, e + 1, e + 2} : events[k].ship_id = req[s].ship
        /\ req[s].pc = "done" /\ req[s].op = "view" /\ req[s].result = "ok"
        /\ req[s].logged = <<"VIEW_OPEN">>
        /\ req[s].ship \in session[s].flags
        /\ req[s].items # <<>>

FirstViewSteps ==
    {"list_items_once", "mark_items_viewed", "add_event_auto_viewed", "set_ship_viewed"}

\* a request is in the first-view block only for a shipment its session has
\* no flag for
C16_FirstViewOnlyUnflagged ==
    \A s \in Sessions :
        req[s].pc \in FirstViewSteps => req[s].ship \notin session[s].flags

\* a GET enters the first-view block exactly when its own session has no
\* flag for this shipment, and a GET outside the block marks nothing and
\* appends no AUTO_VIEWED_ITEMS
C16_FlagDecides ==
    \A s \in Sessions :
        /\ (Arrives(s, {"view"}) /\ req'[s].pc # "done")
           => req'[s].pc = IF req'[s].ship \in session[s].flags
                           THEN "list_items" ELSE "list_items_once"
        /\ (StepOf(s, "view") /\ req[s].pc \in {"list_items", "add_event_view_open"})
           => /\ items' = items /\ ships' = ships
              /\ \A e \in DOMAIN events' \ DOMAIN events :
                    events'[e].type # "AUTO_VIEWED_ITEMS"

\* a step sets at most the flag (s, S) of the session s and shipment S of
\* the request that takes it, and clears none
C16_FlagIsScoped ==
    \A s \in Sessions :
        session'[s].flags # session[s].flags
        => /\ req'[s] # req[s]
           /\ req'[s].ship # NoShip
           /\ session'[s].flags = session[s].flags \cup {req'[s].ship}
           /\ \A o \in Sessions \ {s} : session'[o] = session[o]

C17_ItemsHaveShipment ==
    \A i \in DOMAIN items : items[i].ship_id \in DOMAIN ships

C17_AddItemChecks ==
    \A s \in Sessions :
        Arrives(s, {"add_item"})
        => IF req'[s].ship \notin DOMAIN ships \/ req'[s].result = "empty_label"
           THEN items' = items /\ req'[s].result # "ok"
           ELSE /\ Len(items') = Len(items) + 1
                /\ items'[Len(items')].ship_id = req'[s].ship

\* C17: every item's ship_id is the id of an existing shipment; an add-item
\* for an id that matches no shipment, or with a label empty after trimming,
\* is rejected and inserts no row.
C17_ItemOwnedByShipment ==
    /\ []C17_ItemsHaveShipment
    /\ [][C17_AddItemChecks]_vars

\* the columns of the public view: the items' confirmation and view stamps
\* and the shipment's two timestamps
Stamps(its, shs) ==
    [items |-> [i \in DOMAIN its |->
                  <<its[i].confirmed_at, its[i].confirmed_by,
                    its[i].viewed_at, its[i].viewed_by>>],
     ships |-> [i \in DOMAIN shs |-> <<shs[i].viewed_at, shs[i].received_at>>]]

\* C18: no step of a GET or POST of /open/<token>, sent by a viewer
\* identified with an e-mail other than the shipment's responsible_email,
\* changes an item's confirmed_at, confirmed_by, viewed_at or viewed_by or
\* the shipment's viewed_at or received_at.
C18_OnlyResponsibleMutates ==
    [][\A s \in Sessions :
          (/\ StepOf(s, "view") \/ StepOf(s, "confirm_all") \/ StepOf(s, "confirm_selected")
           /\ req'[s].ship # NoShip
           /\ ships[req'[s].ship].responsible_email # NoEmail
           /\ session[s].viewer_email # NoEmail
           /\ session[s].viewer_email # ships[req'[s].ship].responsible_email)
          => Stamps(items', ships') = Stamps(items, ships)]_vars

C19_ViewedTogether ==
    Quiet => \A i \in DOMAIN ships :
                ships[i].viewed_at # NULL
                    <=> \E k \in ItemsOf(items, i) : items[k].viewed_at # NULL

\* viewed_at of a shipment is set by a request that marked an item of it
\* viewed, and a first GET that finds nothing to mark writes no table
C19_SetWithAutoMark ==
    /\ \A i \in DOMAIN ships :
          (ships[i].viewed_at = NULL /\ ships'[i].viewed_at # NULL)
          => /\ ships'[i].viewed_at = now
             /\ \E s \in Sessions :
                   /\ req[s].pc = "set_ship_viewed" /\ req'[s] # req[s]
                   /\ req[s].ship = i
                   /\ req[s].logged = <<"AUTO_VIEWED_ITEMS">>
                   /\ \A k \in DOMAIN req[s].ids : items[req[s].ids[k]].viewed_at # NULL
    /\ \A s \in Sessions :
          (req[s].pc = "list_items_once" /\ req'[s].pc = "list_items")
          => ships' = ships /\ items' = items /\ events' = events

C20_ListedAreViewed ==
    \A s \in Sessions :
        (req[s].pc = "done" /\ req[s].op = "view" /\ req[s].result = "ok")
        => \A k \in DOMAIN req[s].items : req[s].items[k].viewed_at # NULL

C20_FirstViewMarks ==
    \A s \in Sessions :
        /\ (req[s].pc = "list_items_once" /\ req'[s].pc # req[s].pc)
           => \A i \in ItemsOf(items, req[s].ship) :
                 items[i].viewed_at # NULL \/ i \in Range(req'[s].ids)
        /\ (req[s].pc = "mark_items_viewed" /\ req'[s].pc # req[s].pc)
           => \A i \in Range(req[s].ids) : items'[i].viewed_at # NULL

C20_ViewedStays ==
    \A i \in DOMAIN items : items[i].viewed_at # NULL => items'[i].viewed_at # NULL

\* C20, amended: a GET by a session that holds no flag for the shipment
\* marks every item of the shipment its first-view read finds unviewed, so
\* that each item of that read has viewed_at non-null from then on; a GET by
\* a session that holds the flag marks nothing.
C20_FirstVisitMarksWhatItFound ==
    /\ []C16_FirstViewOnlyUnflagged
    /\ [][C20_FirstViewMarks /\ C20_ViewedStays]_vars

\* A session's first GET of a shipment with two items is answered: it logged
\* AUTO_VIEWED_ITEMS and both listed items are viewed.
C20_Witness ==
    \E s \in Sessions :
        /\ req[s].pc = "done" /\ req[s].op = "view" /\ req[s].result = "ok"
        /\ req[s].logged = <<"AUTO_VIEWED_ITEMS", "VIEW_OPEN">>
        /\ Len(req[s].items) >= 2
        /\ \A k \in DOMAIN req[s].items :
              /\ req[s].items[k].viewed_at # NULL
              /\ items[req[s].items[k].id].viewed_at # NULL

====
